---- MODULE Spec2Model ----
(***************************************************************************)
(* Model of nats-gw (src/main.go): the HTTP => NATS gateway.               *)
(*                                                                         *)
(* Byte slices are kept run-length encoded: a slice is a sequence of runs  *)
(* [b |-> byte, n |-> count], adjacent runs holding different bytes, so    *)
(* that bodies around MaxRequestSize = 16384 bytes stay small values.      *)
(* Two encodings are equal exactly when the byte slices are equal.         *)
(***************************************************************************)
EXTENDS Integers, Sequences, FiniteSets, TLC

VARIABLES
    req,      \* req[i]: the i-th *http.Request (route, mux vars, Body)
    pc,       \* pc[i]: where the handler goroutine of request i is
    elapsed,  \* elapsed[i]: seconds request i has spent inside pub.Request
    bodyPos,  \* bodyPos[i]: bytes of r.Body consumed so far
    bodyClosed, \* bodyClosed[i]: r.Body.Close() has been called
    resp,     \* resp[i]: the http.ResponseWriter of request i
    trace,    \* trace[i]: the calls handler(i) has made, in program order
    logs,     \* the process log: entries written by log.Print
    ret,      \* ret[i]: what the bus call of handler i returned, once it has
    bus,      \* the calls made on the *nats.Conn, in order
    main      \* the main goroutine: where it is, its configuration, its mode

vars == <<req, pc, elapsed, bodyPos, bodyClosed, resp, trace, logs, ret, bus, main>>

\* the variables of the gateway's handlers
gwVars == <<req, pc, elapsed, bodyPos, bodyClosed, resp, trace, logs, ret, bus>>

(***************************************************************************)
(* Program constants                                                       *)
(***************************************************************************)
MaxRequestSize == 16384

RequestTimeout == 4

StatusOK == 200

StatusNoContent == 204

StatusBadRequest == 400

StatusNotFound == 404

StatusNotAcceptable == 406

StatusInternalServerError == 500

(***************************************************************************)
(* Bounds of the model                                                     *)
(***************************************************************************)
MaxRuns == 2

NumTopics == 2

NumReplies == 2

NumConc == 2

(***************************************************************************)
(* Byte slices                                                             *)
(***************************************************************************)
Min(a, b) == IF a <= b THEN a ELSE b

RECURSIVE BLen(_)
BLen(s) == IF s = <<>> THEN 0 ELSE Head(s).n + BLen(Tail(s))

\* s[:n] when n <= len(s), s otherwise: what reading at most n bytes yields
RECURSIVE Take(_, _)
Take(s, n) ==
    IF n <= 0 \/ s = <<>> THEN <<>>
    ELSE IF Head(s).n <= n
         THEN <<Head(s)>> \o Take(Tail(s), n - Head(s).n)
         ELSE <<[b |-> Head(s).b, n |-> n]>>

\* a []byte value: nil, or a (possibly empty) slice
NilBytes == [isnil |-> TRUE, b |-> <<>>]

Bytes(s) == [isnil |-> FALSE, b |-> s]

\* an error value: nil, or an error with its Error() text
NilErr == [isnil |-> TRUE, msg |-> ""]

Err(m) == [isnil |-> FALSE, msg |-> m]

ErrTimeout == Err("nats: timeout")

ErrConnectionClosed == Err("nats: connection closed")

ErrRead == Err("unexpected EOF")

(***************************************************************************)
(* Inputs                                                                  *)
(***************************************************************************)
Routes == {"topics", "requests"}

TopicNames == {"a", "b", "c", "d"}

ValidTopics == {t \in TopicNames :
                  \/ t = "a" /\ NumTopics >= 1
                  \/ t = "b" /\ NumTopics >= 2
                  \/ t = "c" /\ NumTopics >= 3
                  \/ t = "d" /\ NumTopics >= 4}

\* mux.Vars(r)["topic"]: absent, present and empty, or a topic name
TopicVars == {[ok |-> FALSE, name |-> ""], [ok |-> TRUE, name |-> ""]}
             \cup {[ok |-> TRUE, name |-> t] : t \in ValidTopics}

ByteValues == {1, 2}

RunLens == {1, MaxRequestSize, MaxRequestSize + 1}

Runs == [b : ByteValues, n : RunLens]

RECURSIVE SlicesOf(_)
SlicesOf(k) ==
    IF k = 0 THEN {<<>>}
    ELSE LET shorter == SlicesOf(k - 1)
         IN  shorter \cup
             {Append(s, r) : s \in {x \in shorter : Len(x) = k - 1}, r \in Runs}

Canonical(s) == \A j \in 1..(Len(s) - 1) : s[j].b # s[j + 1].b

Slices == {s \in SlicesOf(MaxRuns) : Canonical(s)}

NoFail == -1

\* where the stream of a body may break with a read error instead of going on
FailPoints(s) ==
    {NoFail} \cup ({0, 1, MaxRequestSize - 1, MaxRequestSize, BLen(s)} \cap 0..BLen(s))

\* r.Body: nil, or a stream of bytes that ends in EOF or breaks at failAt
NoBody == [present |-> FALSE, bytes |-> <<>>, failAt |-> NoFail]

Bodies == {NoBody} \cup
          UNION {{[present |-> TRUE, bytes |-> s, failAt |-> f] : f \in FailPoints(s)} : s \in Slices}

Requests == [route : Routes, topic : TopicVars, body : Bodies]

\* the payloads a responder may reply with
ReplySlices == {<<>>} \cup {<<[b |-> 1, n |-> k]>> : k \in 1..NumReplies}

(***************************************************************************)
(* decode (src/main.go:114-139)                                            *)
(***************************************************************************)
\* where reading body b stops: at EOF, or at the read error
StreamEnd(b) == IF b.failAt = NoFail THEN BLen(b.bytes) ELSE b.failAt

\* no limit reader: the whole stream is read
ReadAllUnlimited(b) ==
    LET n == StreamEnd(b)
    IN  [data |-> Bytes(Take(b.bytes, n)),
         err  |-> IF b.failAt # NoFail THEN ErrRead ELSE NilErr,
         pos  |-> n]

\* the limit off by one: the last byte allowed is never read
ReadAllLimitedShort(b) ==
    LET n == Min(StreamEnd(b), MaxRequestSize - 1)
        broken == b.failAt # NoFail /\ b.failAt < MaxRequestSize - 1
    IN  [data |-> Bytes(Take(b.bytes, n)),
         err  |-> IF broken THEN ErrRead ELSE NilErr,
         pos  |-> n]

\* ioutil.ReadAll(io.LimitReader(r.Body, MaxRequestSize)) from the start of
\* the stream: the limit reader stops asking after MaxRequestSize bytes and
\* reports EOF, so an error is seen only when the stream breaks before that
ReadAllLimited(b) ==
    LET n == Min(StreamEnd(b), MaxRequestSize)
        broken == b.failAt # NoFail /\ b.failAt < MaxRequestSize
    IN  [data |-> Bytes(Take(b.bytes, n)),
         err  |-> IF broken THEN ErrRead ELSE NilErr,
         pos  |-> n]

\* no deferred copy: the body is left where the last read stopped
DrainNothing(b, pos) == pos

\* the deferred io.Copy(ioutil.Discard, r.Body): reads on from pos until EOF
\* or the read error
Drain(b, pos) == StreamEnd(b)

\* the body checked before the topic
decodeBodyFirst(r) ==
    LET b == r.body
        after(pos) == [pos    |-> IF b.present THEN Drain(b, pos) ELSE 0,
                       closed |-> b.present]
        rd == ReadAllLimited(b)
    IN  IF ~b.present
        THEN [topic |-> "", data |-> NilBytes, status |-> StatusNotAcceptable,
              err |-> Err("missing topic body"), body |-> after(0)]
        ELSE IF ~rd.err.isnil
        THEN [topic |-> "", data |-> NilBytes, status |-> StatusBadRequest,
              err |-> rd.err, body |-> after(rd.pos)]
        ELSE IF ~r.topic.ok \/ r.topic.name = ""
        THEN [topic |-> "", data |-> NilBytes, status |-> StatusNotFound,
              err |-> Err("Missing topic"), body |-> after(rd.pos)]
        ELSE [topic |-> r.topic.name, data |-> rd.data, status |-> StatusOK,
              err |-> NilErr, body |-> after(rd.pos)]

\* the values decode returns, and what it has done to r.Body on return
decode(r) ==
    LET b == r.body
        after(pos) == [pos    |-> IF b.present THEN Drain(b, pos) ELSE 0,
                       closed |-> b.present]
        rd == ReadAllLimited(b)
    IN  IF ~r.topic.ok \/ r.topic.name = ""
        THEN [topic |-> "", data |-> NilBytes, status |-> StatusNotFound,
              err |-> Err("Missing topic"), body |-> after(0)]
        ELSE IF ~b.present
        THEN [topic |-> "", data |-> NilBytes, status |-> StatusNotAcceptable,
              err |-> Err("missing topic body"), body |-> after(0)]
        ELSE IF ~rd.err.isnil
        THEN [topic |-> "", data |-> NilBytes, status |-> StatusBadRequest,
              err |-> rd.err, body |-> after(rd.pos)]
        ELSE [topic |-> r.topic.name, data |-> rd.data, status |-> StatusOK,
              err |-> NilErr, body |-> after(rd.pos)]

(***************************************************************************)
(* The dispatch operations (src/main.go:142-156), as functions of what the *)
(* bus client's call returned                                              *)
(***************************************************************************)
\* topic: puberr is the error pub.Publish returned
topic(puberr) ==
    IF ~puberr.isnil
    THEN [response |-> NilBytes, status |-> StatusInternalServerError, err |-> puberr]
    ELSE [response |-> NilBytes, status |-> StatusNoContent, err |-> NilErr]

\* the reply dropped: the response carries no data
requestNoData(msgData, reqerr) ==
    IF ~reqerr.isnil
    THEN [response |-> NilBytes, status |-> StatusInternalServerError, err |-> reqerr]
    ELSE [response |-> NilBytes, status |-> StatusOK, err |-> NilErr]

\* request: msgData and reqerr are what pub.Request returned
request(msgData, reqerr) ==
    IF ~reqerr.isnil
    THEN [response |-> NilBytes, status |-> StatusInternalServerError, err |-> reqerr]
    ELSE [response |-> msgData, status |-> StatusOK, err |-> NilErr]

(***************************************************************************)
(* http.ResponseWriter                                                     *)
(***************************************************************************)
NewResponse == [wroteHeader |-> FALSE, headerCalls |-> 0, status |-> 0,
                contentType |-> "", text |-> "", bytes |-> <<>>]

HeaderAdd(w, v) == IF w.wroteHeader THEN w ELSE [w EXCEPT !.contentType = v]

WriteHeader(w, code) ==
    IF w.wroteHeader
    THEN [w EXCEPT !.headerCalls = @ + 1]
    ELSE [w EXCEPT !.wroteHeader = TRUE, !.headerCalls = @ + 1, !.status = code]

\* a status that forbids a body drops what is written
BodyAllowed(code) == code # StatusNoContent

\* w.Write([]byte(msg))
WriteText(w, msg) ==
    LET h == IF w.wroteHeader THEN w
             ELSE [w EXCEPT !.wroteHeader = TRUE, !.status = StatusOK]
    IN  IF msg = "" \/ ~BodyAllowed(h.status) THEN h ELSE [h EXCEPT !.text = msg]

\* w.Write(data)
WriteBytes(w, data) ==
    LET h == IF w.wroteHeader THEN w
             ELSE [w EXCEPT !.wroteHeader = TRUE, !.status = StatusOK]
    IN  IF data.b = <<>> \/ ~BodyAllowed(h.status) THEN h ELSE [h EXCEPT !.bytes = data.b]

(***************************************************************************)
(* handler, from the values of data, code and err on (src/main.go:100-109) *)
(***************************************************************************)
\* the error path writes the status itself, and the common path writes it too
respondTwice(w, data, code, err) ==
    LET w1 == IF ~data.isnil THEN HeaderAdd(w, "application/json") ELSE w
        w2 == IF ~err.isnil THEN WriteHeader(w1, code) ELSE w1
        w3 == WriteHeader(w2, code)
    IN  IF ~err.isnil THEN WriteText(w3, err.msg) ELSE WriteBytes(w3, data)

respond(w, data, code, err) ==
    LET w1 == IF ~data.isnil THEN HeaderAdd(w, "application/json") ELSE w
        w2 == WriteHeader(w1, code)
    IN  IF ~err.isnil THEN WriteText(w2, err.msg) ELSE WriteBytes(w2, data)

\* the error logged ahead of everything written to w
respondCallsLogFirst(data, err) ==
    (IF ~err.isnil THEN <<"log.Print">> ELSE <<>>)
    \o (IF ~data.isnil THEN <<"Header.Add">> ELSE <<>>)
    \o <<"WriteHeader", "Write">>

\* the error logged after the body has been written
respondCallsLogLast(data, err) ==
    (IF ~data.isnil THEN <<"Header.Add">> ELSE <<>>)
    \o <<"WriteHeader", "Write">>
    \o (IF ~err.isnil THEN <<"log.Print">> ELSE <<>>)

\* the calls those lines make, in program order
respondCalls(data, err) ==
    (IF ~data.isnil THEN <<"Header.Add">> ELSE <<>>)
    \o <<"WriteHeader">>
    \o (IF ~err.isnil THEN <<"log.Print", "Write">> ELSE <<"Write">>)

(***************************************************************************)
(* config.read (src/main.go:159-211)                                       *)
(***************************************************************************)
\* an environment variable that is not set, and one that is
Unset == [ok |-> FALSE, v |-> ""]

EnvVal(v) == [ok |-> TRUE, v |-> v]

\* the command line: a string flag not given is "", the port not given is 0
FlagSets == [user : {"", "u"}, pass : {"", "p"}, host : {"", "h"},
             port : {0, 4222}, test : {"", "t"}]

EnvSets == [NATS_USER : {Unset, EnvVal("eu")},
            NATS_PASS : {Unset, EnvVal("ep")},
            NATS_HOST : {Unset, EnvVal("eh"), EnvVal("4222")},
            NATS_PORT : {Unset, EnvVal("4223")},
            NATS_TEST : {Unset, EnvVal("et")}]

\* strconv.Atoi on the values the environment may hold
Atoi(v) ==
    IF v = "4222" THEN [n |-> 4222, err |-> NilErr]
    ELSE IF v = "4223" THEN [n |-> 4223, err |-> NilErr]
    ELSE [n |-> 0, err |-> Err("strconv.Atoi: invalid syntax")]

\* var cfg config
ZeroConfig == [User |-> "", Pass |-> "", Host |-> "", Port |-> 0, Test |-> ""]

ReadFail(msg) == [err |-> Err(msg), cfg |-> ZeroConfig]

\* (c *config) read(): the error returned and the fields set
read(flags, env) ==
    LET user == IF flags.user = "" THEN env.NATS_USER ELSE EnvVal(flags.user)
        pass == IF flags.pass = "" THEN env.NATS_PASS ELSE EnvVal(flags.pass)
        host == IF flags.host = "" THEN env.NATS_HOST ELSE EnvVal(flags.host)
        \* line 188 looks the port up under NATS_HOST
        penv == env.NATS_HOST
        port == IF flags.port = 0 THEN Atoi(penv.v)
                ELSE [n |-> flags.port, err |-> NilErr]
        test == IF flags.test = "" /\ env.NATS_TEST.ok THEN env.NATS_TEST.v
                ELSE flags.test
    IN  IF ~user.ok THEN ReadFail("Missing both -user flag and NATS_USER env var")
        ELSE IF ~pass.ok THEN ReadFail("Missing both -pass flag and NATS_PASS env var")
        ELSE IF ~host.ok THEN ReadFail("Missing both -pass flag and NATS_PASS env var")
        ELSE IF flags.port = 0 /\ ~penv.ok
        THEN ReadFail("Missing both -pass flag and NATS_PASS env var")
        ELSE IF ~port.err.isnil THEN [err |-> port.err, cfg |-> ZeroConfig]
        ELSE [err |-> NilErr,
              cfg |-> [User |-> user.v, Pass |-> pass.v, Host |-> host.v,
                       Port |-> port.n, Test |-> test]]

(***************************************************************************)
(* main (src/main.go:35-66): the state of the process                      *)
(***************************************************************************)
\* the process as it starts with the given command line and environment
StartMain(flags, env) ==
    [pc |-> "start", flags |-> flags, env |-> env, cfg |-> ZeroConfig,
     fatal |-> NilErr, sub |-> FALSE, routes |-> FALSE, listening |-> FALSE,
     msgs |-> <<>>, signal |-> FALSE]

\* a process in normal mode that has come to http.ListenAndServe
ServingMain ==
    LET flags == [user |-> "u", pass |-> "p", host |-> "h", port |-> 4222, test |-> ""]
        env == [NATS_USER |-> Unset, NATS_PASS |-> Unset, NATS_HOST |-> Unset,
                NATS_PORT |-> Unset, NATS_TEST |-> Unset]
    IN  [StartMain(flags, env) EXCEPT !.pc = "serving", !.cfg = read(flags, env).cfg,
                                      !.routes = TRUE, !.listening = TRUE]

(***************************************************************************)
(* The gateway serving requests: one handler goroutine per request         *)
(***************************************************************************)
Ids == DOMAIN req

\* the requests of the concurrent runs: both routes, the topic there or
\* missing, small bodies
ConcBodies == {[present |-> TRUE, bytes |-> <<[b |-> v, n |-> 1]>>, failAt |-> NoFail] :
                 v \in ByteValues}

ConcRequests == [route : Routes,
                 topic : {[ok |-> TRUE, name |-> "a"], [ok |-> FALSE, name |-> ""]},
                 body : ConcBodies]

InitWith(ids, inputs) ==
    /\ req \in [ids -> inputs]
    /\ pc = [i \in ids |-> "received"]
    /\ elapsed = [i \in ids |-> 0]
    /\ bodyPos = [i \in ids |-> 0]
    /\ bodyClosed = [i \in ids |-> FALSE]
    /\ resp = [i \in ids |-> NewResponse]
    /\ trace = [i \in ids |-> <<>>]
    /\ logs = <<>>
    /\ ret = [i \in ids |-> [returned |-> FALSE, msg |-> NilBytes, err |-> NilErr]]
    /\ bus = <<>>

\* one request, of any shape
Init == InitWith({1}, Requests) /\ main = ServingMain

\* NumConc requests in flight together
InitConc == InitWith(1..NumConc, ConcRequests) /\ main = ServingMain

\* the errors a call on the connection may return at once
SendErrs == {NilErr, ErrConnectionClosed}

BusCall(op, i, t, data, e) ==
    [op |-> op, by |-> i, topic |-> t, data |-> data.b, err |-> e, delivered |-> FALSE]

\* a call that fails is made again
SendRetry(b, call) ==
    IF call.err.isnil THEN Append(b, call) ELSE Append(Append(b, call), call)

\* a call equal to an earlier one is dropped
SendOnce(b, call) ==
    IF \E k \in DOMAIN b : /\ b[k].op = call.op
                            /\ b[k].topic = call.topic
                            /\ b[k].data = call.data
    THEN b
    ELSE Append(b, call)

\* pub.Publish / pub.Request: the call is made on the connection
Send(b, call) == Append(b, call)

\* the bus call of handler i returns msg and e
Returns(i, msg, e) ==
    ret' = [ret EXCEPT ![i] = [returned |-> TRUE, msg |-> msg, err |-> e]]

\* log.Print("NATS Error: ", err), called by handler i
LogEntry(i, err) == [by |-> i, args |-> <<"NATS Error: ", err.msg>>]

\* the status kept in a variable shared by all handlers: a handler that
\* finishes while another is inside its bus call writes no status of its own
FinishShared(i, data, code, err) ==
    LET c == IF \E j \in Ids : j # i /\ pc[j] = "waiting" THEN StatusOK ELSE code
    IN  /\ resp' = [resp EXCEPT ![i] = respond(@, data, c, err)]
        /\ logs' = IF err.isnil THEN logs ELSE Append(logs, LogEntry(i, err))
        /\ pc' = [pc EXCEPT ![i] = "done"]

\* lines 100-109 run for request i with the given data, code and err
Finish(i, data, code, err) ==
    /\ resp' = [resp EXCEPT ![i] = respond(@, data, code, err)]
    /\ logs' = IF err.isnil THEN logs ELSE Append(logs, LogEntry(i, err))
    /\ pc' = [pc EXCEPT ![i] = "done"]

Decoded(i, d) ==
    /\ bodyPos' = [bodyPos EXCEPT ![i] = d.body.pos]
    /\ bodyClosed' = [bodyClosed EXCEPT ![i] = d.body.closed]

\* err is not looked at: f is called with what decode returned
HandleDecodeErrorCalls(i) ==
    LET d == decode(req[i])
        r == topic(NilErr)
    IN  /\ pc[i] = "received"
        /\ ~d.err.isnil
        /\ Decoded(i, d)
        /\ bus' = Send(bus, BusCall("Publish", i, d.topic, d.data, NilErr))
        /\ Returns(i, NilBytes, NilErr)
        /\ Finish(i, d.data, d.status, d.err)
        /\ trace' = [trace EXCEPT ![i] =
                        <<"decode", "Publish">> \o respondCalls(d.data, d.err)]
        /\ UNCHANGED <<req, elapsed, main>>

\* handler, either route: decode fails and f is never called
HandleDecodeError(i) ==
    LET d == decode(req[i])
    IN  /\ pc[i] = "received"
        /\ ~d.err.isnil
        /\ Decoded(i, d)
        /\ Finish(i, d.data, d.status, d.err)
        /\ trace' = [trace EXCEPT ![i] = <<"decode">> \o respondCalls(d.data, d.err)]
        /\ UNCHANGED <<req, elapsed, ret, bus, main>>

\* the publish handler holds its response until the bus has answered
HandleTopicWaits(i) ==
    LET d == decode(req[i])
    IN  /\ pc[i] = "received"
        /\ req[i].route = "topics"
        /\ d.err.isnil
        /\ Decoded(i, d)
        /\ bus' = Send(bus, BusCall("Publish", i, d.topic, d.data, NilErr))
        /\ pc' = [pc EXCEPT ![i] = "waiting"]
        /\ trace' = [trace EXCEPT ![i] = <<"decode", "Publish">>]
        /\ UNCHANGED <<req, elapsed, resp, logs, ret, main>>

\* handler(p, topic): decode, pub.Publish, response
HandleTopic(i) ==
    LET d == decode(req[i])
    IN  /\ pc[i] = "received"
        /\ req[i].route = "topics"
        /\ d.err.isnil
        /\ Decoded(i, d)
        /\ \E e \in SendErrs :
              LET r == topic(e)
              IN  /\ bus' = Send(bus, BusCall("Publish", i, d.topic, d.data, e))
                  /\ Returns(i, NilBytes, e)
                  /\ Finish(i, r.response, r.status, r.err)
                  /\ trace' = [trace EXCEPT ![i] =
                                  <<"decode", "Publish">> \o respondCalls(r.response, r.err)]
        /\ UNCHANGED <<req, elapsed, main>>

\* handler(p, request) up to pub.Request: the call fails at once, or the
\* goroutine blocks waiting for the reply
HandleRequest(i) ==
    LET d == decode(req[i])
    IN  /\ pc[i] = "received"
        /\ req[i].route = "requests"
        /\ d.err.isnil
        /\ Decoded(i, d)
        /\ \E e \in SendErrs :
              LET r == request(NilBytes, e)
              IN  /\ bus' = Send(bus, BusCall("Request", i, d.topic, d.data, e))
                  /\ IF e.isnil
                     THEN /\ pc' = [pc EXCEPT ![i] = "waiting"]
                          /\ trace' = [trace EXCEPT ![i] = <<"decode", "Request">>]
                          /\ UNCHANGED <<resp, logs, ret>>
                     ELSE /\ Returns(i, NilBytes, e)
                          /\ Finish(i, r.response, r.status, r.err)
                          /\ trace' = [trace EXCEPT ![i] =
                                  <<"decode", "Request">> \o respondCalls(r.response, r.err)]
        /\ UNCHANGED <<req, elapsed, main>>

\* the bus hands call k's message to a subscriber
Deliver(k) ==
    /\ k \in DOMAIN bus
    /\ bus[k].err.isnil
    /\ ~bus[k].delivered
    /\ bus' = [bus EXCEPT ![k].delivered = TRUE]
    /\ UNCHANGED <<req, pc, elapsed, bodyPos, bodyClosed, resp, trace, logs, ret, main>>

\* pub.Request returns the reply a responder sent before the timeout
RequestReply(i) ==
    /\ pc[i] = "waiting"
    /\ elapsed[i] < RequestTimeout
    /\ \E k \in DOMAIN bus : bus[k].by = i /\ bus[k].delivered
    /\ \E p \in ReplySlices :
          LET r == request(Bytes(p), NilErr)
          IN  /\ Returns(i, Bytes(p), NilErr)
              /\ Finish(i, r.response, r.status, r.err)
              /\ trace' = [trace EXCEPT ![i] = @ \o respondCalls(r.response, r.err)]
    /\ UNCHANGED <<req, elapsed, bodyPos, bodyClosed, bus, main>>

\* no timeout: the goroutine goes on waiting
RequestWaitsOn(i) ==
    /\ pc[i] = "waiting"
    /\ elapsed[i] > RequestTimeout
    /\ UNCHANGED vars

\* pub.Request returns the timeout error once 4 seconds have gone by
RequestTimesOut(i) ==
    /\ pc[i] = "waiting"
    /\ elapsed[i] = RequestTimeout
    /\ LET r == request(NilBytes, ErrTimeout)
       IN  /\ Returns(i, NilBytes, ErrTimeout)
           /\ Finish(i, r.response, r.status, r.err)
           /\ trace' = [trace EXCEPT ![i] = @ \o respondCalls(r.response, r.err)]
    /\ UNCHANGED <<req, elapsed, bodyPos, bodyClosed, bus, main>>

\* a second goes by for every goroutine blocked in pub.Request
Tick ==
    /\ \E i \in Ids : pc[i] = "waiting"
    /\ \A i \in Ids : pc[i] = "waiting" => elapsed[i] < RequestTimeout
    /\ elapsed' = [i \in Ids |-> IF pc[i] = "waiting" THEN elapsed[i] + 1 ELSE elapsed[i]]
    /\ UNCHANGED <<req, pc, bodyPos, bodyClosed, resp, trace, logs, ret, bus, main>>

Next ==
    \/ \E i \in Ids : HandleDecodeError(i)
    \/ \E i \in Ids : HandleTopic(i)
    \/ \E i \in Ids : HandleRequest(i)
    \/ \E k \in DOMAIN bus : Deliver(k)
    \/ \E i \in Ids : RequestReply(i)
    \/ \E i \in Ids : RequestTimesOut(i)
    \/ Tick

Spec == Init /\ [][Next]_vars

SpecConc == InitConc /\ [][Next]_vars

\* time passes, and a handler that can take its next step takes it
Fairness ==
    /\ WF_vars(Tick)
    /\ \A i \in {1} : WF_vars(HandleDecodeError(i) \/ HandleTopic(i) \/ HandleRequest(i))
    /\ \A i \in {1} : WF_vars(RequestTimesOut(i))

FairSpec == Init /\ [][Next]_vars /\ Fairness

(***************************************************************************)
(* The JSON-validating variant of the publish route (src/main.go:213-396): *)
(* the body is decoded into a map[string]string before it is published.   *)
(* A body is a sequence of lexical tokens [t, v, n]: the kind, the text of *)
(* a string, the length in bytes.                                          *)
(***************************************************************************)
MaxRequestSizeJSON == 8192

LB == [t |-> "{", v |-> "", n |-> 1]

RB == [t |-> "}", v |-> "", n |-> 1]

COLON == [t |-> ":", v |-> "", n |-> 1]

COMMA == [t |-> ",", v |-> "", n |-> 1]

\* a JSON string of one character, with its quotes
Str(v) == [t |-> "str", v |-> v, n |-> 3]

\* a JSON string of n bytes, quotes included
LongStr(v, n) == [t |-> "str", v |-> v, n |-> n]

\* a JSON number of one digit
Num == [t |-> "num", v |-> "", n |-> 1]

\* n bytes of white space
Ws(n) == [t |-> "ws", v |-> "", n |-> n]

\* a byte that starts no JSON token
Junk == [t |-> "junk", v |-> "", n |-> 1]

\* {"k":"v"}
ObjKV == <<LB, Str("k"), COLON, Str("v"), RB>>

RECURSIVE TLen(_)
TLen(ts) == IF ts = <<>> THEN 0 ELSE Head(ts).n + TLen(Tail(ts))

\* the bodies sent, each with what encoding/json makes of its first
\* MaxRequestSizeJSON bytes: whether Decode succeeds, and the map it yields
JSONCases ==
    { [toks |-> <<>>, valid |-> FALSE, value |-> {}],
      [toks |-> <<LB, RB>>, valid |-> TRUE, value |-> {}],
      [toks |-> ObjKV, valid |-> TRUE, value |-> {<<"k", "v">>}],
      [toks |-> <<Ws(1)>> \o ObjKV, valid |-> TRUE, value |-> {<<"k", "v">>}],
      [toks |-> ObjKV \o <<Junk>>, valid |-> TRUE, value |-> {<<"k", "v">>}],
      [toks |-> <<LB, Str("k"), COLON, Str("v"), COMMA, Str("l"), COLON, Str("w"), RB>>,
       valid |-> TRUE, value |-> {<<"k", "v">>, <<"l", "w">>}],
      [toks |-> <<LB, Str("k"), COLON, Str("v"), COMMA, Str("k"), COLON, Str("w"), RB>>,
       valid |-> TRUE, value |-> {<<"k", "w">>}],
      [toks |-> <<LB, Str("k"), COLON, Num, RB>>, valid |-> FALSE, value |-> {}],
      [toks |-> <<LB, Str("k"), COLON, Num, COMMA, Str("l"), COLON, Str("w"), RB>>,
       valid |-> FALSE, value |-> {}],
      [toks |-> <<LB, Str("k"), COLON, Str("v")>>, valid |-> FALSE, value |-> {}],
      [toks |-> <<LB, Str("k"), COLON, Str("v"), COMMA, RB>>, valid |-> FALSE, value |-> {}],
      [toks |-> <<LB, Str("k"), Str("v"), RB>>, valid |-> FALSE, value |-> {}],
      [toks |-> <<LB, Num, COLON, Str("v"), RB>>, valid |-> FALSE, value |-> {}],
      [toks |-> <<Str("v")>>, valid |-> FALSE, value |-> {}],
      [toks |-> <<Num>>, valid |-> FALSE, value |-> {}],
      [toks |-> <<Junk>> \o ObjKV, valid |-> FALSE, value |-> {}],
      [toks |-> <<RB>>, valid |-> FALSE, value |-> {}],
      [toks |-> <<Ws(MaxRequestSizeJSON)>>, valid |-> FALSE, value |-> {}],
      [toks |-> <<Ws(MaxRequestSizeJSON - 9)>> \o ObjKV, valid |-> TRUE,
       value |-> {<<"k", "v">>}],
      [toks |-> <<Ws(MaxRequestSizeJSON - 8)>> \o ObjKV, valid |-> FALSE, value |-> {}],
      [toks |-> <<Ws(MaxRequestSizeJSON)>> \o ObjKV, valid |-> FALSE, value |-> {}],
      [toks |-> ObjKV \o <<Ws(MaxRequestSizeJSON)>>, valid |-> TRUE,
       value |-> {<<"k", "v">>}],
      [toks |-> <<LB, Str("k"), COLON, LongStr("v", MaxRequestSizeJSON), RB>>,
       valid |-> FALSE, value |-> {}],
      [toks |-> <<LB, Str("k"), COLON, LongStr("v", MaxRequestSizeJSON - 6), RB>>,
       valid |-> TRUE, value |-> {<<"k", "v">>}] }

JSONBodies == {[present |-> FALSE, toks |-> <<>>]}
              \cup {[present |-> TRUE, toks |-> c.toks] : c \in JSONCases}

JSONRequests == [route : {"topics"}, topic : TopicVars, body : JSONBodies]

\* io.LimitReader(r.Body, n) over tokens: what lies within the first n
\* bytes; white space cut short is white space, any other token cut short is
\* an incomplete one
RECURSIVE LimitTokens(_, _)
LimitTokens(ts, n) ==
    IF n <= 0 \/ ts = <<>> THEN <<>>
    ELSE IF Head(ts).n <= n
         THEN <<Head(ts)>> \o LimitTokens(Tail(ts), n - Head(ts).n)
         ELSE IF Head(ts).t = "ws" THEN <<Ws(n)>>
              ELSE <<[t |-> "cut", v |-> "", n |-> n]>>

RECURSIVE SkipWs(_)
SkipWs(ts) ==
    IF ts = <<>> THEN <<>>
    ELSE IF Head(ts).t = "ws" THEN SkipWs(Tail(ts))
         ELSE <<Head(ts)>> \o SkipWs(Tail(ts))

\* m with key k set to v
Put(m, k, v) == {p \in m : p[1] # k} \cup {<<k, v>>}

JSONFail(msg) == [err |-> Err(msg), value |-> {}]

\* the members of an object after "{" or ",": m is the map so far, bad says a
\* value of the wrong type has been met, which Decode reports at the end
RECURSIVE Members(_, _, _, _)
Members(ts, m, bad, first) ==
    IF ts = <<>> THEN JSONFail("unexpected EOF")
    ELSE IF first /\ ts[1].t = "}"
    THEN IF bad THEN JSONFail("json: cannot unmarshal") ELSE [err |-> NilErr, value |-> m]
    ELSE IF ts[1].t = "cut" THEN JSONFail("unexpected EOF")
    ELSE IF ts[1].t # "str" THEN JSONFail("invalid character")
    ELSE IF Len(ts) < 2 \/ ts[2].t = "cut" THEN JSONFail("unexpected EOF")
    ELSE IF ts[2].t # ":" THEN JSONFail("invalid character")
    ELSE IF Len(ts) < 3 \/ ts[3].t = "cut" THEN JSONFail("unexpected EOF")
    ELSE IF ts[3].t \notin {"str", "num"} THEN JSONFail("invalid character")
    ELSE IF Len(ts) < 4 \/ ts[4].t = "cut" THEN JSONFail("unexpected EOF")
    ELSE LET isnum == ts[3].t = "num"
             m2 == IF isnum THEN m ELSE Put(m, ts[1].v, ts[3].v)
         IN  IF ts[4].t = "}"
             THEN IF bad \/ isnum THEN JSONFail("json: cannot unmarshal")
                  ELSE [err |-> NilErr, value |-> m2]
             ELSE IF ts[4].t = ","
             THEN Members(SubSeq(ts, 5, Len(ts)), m2, bad \/ isnum, FALSE)
             ELSE JSONFail("invalid character")

\* json.NewDecoder(io.LimitReader(r.Body, MaxRequestSize)).Decode(&message),
\* message a map[string]string: the first JSON value of the stream is read,
\* what follows it is not looked at
JSONDecode(toks) ==
    LET ts == SkipWs(LimitTokens(toks, MaxRequestSizeJSON))
    IN  IF ts = <<>> THEN JSONFail("EOF")
        ELSE IF ts[1].t = "cut" THEN JSONFail("unexpected EOF")
        ELSE IF ts[1].t \in {"str", "num"} THEN JSONFail("json: cannot unmarshal")
        ELSE IF ts[1].t # "{" THEN JSONFail("invalid character")
        ELSE Members(Tail(ts), {}, FALSE, TRUE)

\* topic (lines 312-341): the status and error it returns, whether it has
\* called p.Publish and with what, and what it has done to r.Body; puberr is
\* the error p.Publish returns when called
topicJSON(r, puberr) ==
    LET b == r.body
        after == [pos |-> IF b.present THEN TLen(b.toks) ELSE 0, closed |-> b.present]
        dec == JSONDecode(b.toks)
        quiet(code, err) == [status |-> code, err |-> err, published |-> FALSE,
                             topic |-> "", message |-> {}, body |-> after]
    IN  IF ~r.topic.ok \/ r.topic.name = ""
        THEN quiet(StatusNotFound, Err("Missing topic"))
        ELSE IF ~b.present
        THEN quiet(StatusNotAcceptable, Err("missing topic body"))
        ELSE IF ~dec.err.isnil
        THEN quiet(StatusBadRequest, dec.err)
        ELSE [status |-> IF puberr.isnil THEN StatusNoContent
                         ELSE StatusInternalServerError,
              err |-> puberr, published |-> TRUE,
              topic |-> r.topic.name, message |-> dec.value, body |-> after]

\* the route's handler function (lines 301-308) after topic has returned
respondJSON(w, code, err) ==
    LET w1 == WriteHeader(w, code)
    IN  IF ~err.isnil THEN WriteText(w1, err.msg) ELSE w1

respondJSONCalls(err) ==
    <<"WriteHeader">> \o (IF ~err.isnil THEN <<"log.Print", "Write">> ELSE <<>>)

InitJSON == InitWith({1}, JSONRequests) /\ main = ServingMain

FinishJSON(i, t) ==
    /\ resp' = [resp EXCEPT ![i] = respondJSON(@, t.status, t.err)]
    /\ logs' = IF t.err.isnil THEN logs ELSE Append(logs, LogEntry(i, t.err))
    /\ pc' = [pc EXCEPT ![i] = "done"]
    /\ bodyPos' = [bodyPos EXCEPT ![i] = t.body.pos]
    /\ bodyClosed' = [bodyClosed EXCEPT ![i] = t.body.closed]

\* the decode error is not looked at: what was decoded is published
HandleJSONPublishAnyway(i) ==
    LET b == req[i].body
        dec == JSONDecode(b.toks)
    IN  /\ pc[i] = "received"
        /\ req[i].topic.ok /\ req[i].topic.name # "" /\ b.present
        /\ bus' = Send(bus, [op |-> "Publish", by |-> i, topic |-> req[i].topic.name,
                             data |-> dec.value, err |-> NilErr, delivered |-> FALSE])
        /\ Returns(i, NilBytes, NilErr)
        /\ resp' = [resp EXCEPT ![i] = respondJSON(@, StatusNoContent, NilErr)]
        /\ pc' = [pc EXCEPT ![i] = "done"]
        /\ bodyPos' = [bodyPos EXCEPT ![i] = TLen(b.toks)]
        /\ bodyClosed' = [bodyClosed EXCEPT ![i] = TRUE]
        /\ trace' = [trace EXCEPT ![i] = <<"topic", "Publish", "WriteHeader">>]
        /\ UNCHANGED <<req, elapsed, logs, main>>

\* the handler when topic returns before it publishes
HandleJSONReject(i) ==
    LET t == topicJSON(req[i], NilErr)
    IN  /\ pc[i] = "received"
        /\ ~t.published
        /\ FinishJSON(i, t)
        /\ trace' = [trace EXCEPT ![i] = <<"topic">> \o respondJSONCalls(t.err)]
        /\ UNCHANGED <<req, elapsed, ret, bus, main>>

\* the handler when topic decodes the body and calls p.Publish
HandleJSONPublish(i) ==
    /\ pc[i] = "received"
    /\ \E e \in SendErrs :
          LET t == topicJSON(req[i], e)
          IN  /\ t.published
              /\ bus' = Send(bus, [op |-> "Publish", by |-> i, topic |-> t.topic,
                                   data |-> t.message, err |-> e, delivered |-> FALSE])
              /\ Returns(i, NilBytes, e)
              /\ FinishJSON(i, t)
              /\ trace' = [trace EXCEPT ![i] =
                              <<"topic", "Publish">> \o respondJSONCalls(t.err)]
    /\ UNCHANGED <<req, elapsed, main>>

NextJSON ==
    \/ \E i \in Ids : HandleJSONReject(i)
    \/ \E i \in Ids : HandleJSONPublish(i)
    \/ \E k \in DOMAIN bus : Deliver(k)

SpecJSON == InitJSON /\ [][NextJSON]_vars

(***************************************************************************)
(* main (src/main.go:35-81): start-up, test mode and normal mode           *)
(***************************************************************************)
MaxMsgs == 2

\* the messages that may arrive on the subscribed topic
Msgs(subject) == [Subject : {subject}, Data : {"m"}, Reply : {"", "_INBOX.1"}]

\* []byte(fmt.Sprintf("{ \"pong\": %s }", string(msg.Data)))
Pong(data) == <<"{ \"pong\": ", data, " }">>

\* the subscriber's goroutine, as the caller of bus calls and of log.Printf
Subscriber == 0

InitMain ==
    /\ InitWith({}, Requests)
    /\ \E f \in FlagSets, e \in EnvSets : main = StartMain(f, e)

\* lines 36-39: the configuration is read, and a failure is fatal
ReadConfig ==
    LET r == read(main.flags, main.env)
    IN  /\ main.pc = "start"
        /\ main' = IF r.err.isnil
                   THEN [main EXCEPT !.pc = "connect", !.cfg = r.cfg]
                   ELSE [main EXCEPT !.pc = "exited", !.fatal = r.err]
        /\ UNCHANGED gwVars

\* lines 40-45: nats.Connect, and a failure is fatal
Connect ==
    /\ main.pc = "connect"
    /\ \E e \in SendErrs :
          main' = IF e.isnil THEN [main EXCEPT !.pc = "connected"]
                  ELSE [main EXCEPT !.pc = "exited", !.fatal = e]
    /\ UNCHANGED gwVars

\* lines 46-61: test mode, nc.Subscribe, then main waits in waitForInterrupt
Subscribe ==
    /\ main.pc = "connected"
    /\ main.cfg.Test # ""
    /\ \E e \in SendErrs :
          main' = IF e.isnil THEN [main EXCEPT !.pc = "subscribed", !.sub = TRUE]
                  ELSE [main EXCEPT !.pc = "exited", !.fatal = e]
    /\ UNCHANGED gwVars

\* the subscription callback exits the process when the reply cannot be sent
OnMessageFatal ==
    /\ main.sub
    /\ main.pc \in {"subscribed", "signalled"}
    /\ Len(main.msgs) < MaxMsgs
    /\ \E m \in Msgs(main.cfg.Test), e \in SendErrs :
          /\ m.Reply = "" => e.isnil
          /\ main' = IF e.isnil THEN [main EXCEPT !.msgs = Append(@, m)]
                     ELSE [main EXCEPT !.msgs = Append(@, m), !.pc = "exited",
                                       !.sub = FALSE, !.fatal = e]
          /\ bus' = IF m.Reply = "" THEN bus
                    ELSE Send(bus, [op |-> "Publish", by |-> Subscriber,
                                    topic |-> m.Reply, data |-> Pong(m.Data),
                                    err |-> e, delivered |-> FALSE])
          /\ logs' = Append(logs, [by |-> Subscriber,
                                   args |-> <<"Received message", m.Subject, m.Data>>])
    /\ UNCHANGED <<req, pc, elapsed, bodyPos, bodyClosed, resp, trace, ret>>

\* the subscription callback replies to every message, reply address or not
OnMessageAlways ==
    /\ main.sub
    /\ main.pc \in {"subscribed", "signalled"}
    /\ Len(main.msgs) < MaxMsgs
    /\ \E m \in Msgs(main.cfg.Test) :
          /\ main' = [main EXCEPT !.msgs = Append(@, m)]
          /\ bus' = Send(bus, [op |-> "Publish", by |-> Subscriber,
                               topic |-> m.Reply, data |-> Pong(m.Data),
                               err |-> NilErr, delivered |-> FALSE])
          /\ logs' = Append(logs, [by |-> Subscriber,
                                   args |-> <<"Received message", m.Subject, m.Data>>])
    /\ UNCHANGED <<req, pc, elapsed, bodyPos, bodyClosed, resp, trace, ret>>

\* lines 48-56: the subscription callback, run for one message m; e is the
\* error nc.Publish returns when it is called
OnMessage ==
    /\ main.sub
    /\ main.pc \in {"subscribed", "signalled"}
    /\ Len(main.msgs) < MaxMsgs
    /\ \E m \in Msgs(main.cfg.Test), e \in SendErrs :
          /\ m.Reply = "" => e.isnil
          /\ main' = [main EXCEPT !.msgs = Append(@, m)]
          /\ bus' = IF m.Reply = "" THEN bus
                    ELSE Send(bus, [op |-> "Publish", by |-> Subscriber,
                                    topic |-> m.Reply, data |-> Pong(m.Data),
                                    err |-> e, delivered |-> FALSE])
          /\ logs' = Append(logs, [by |-> Subscriber,
                                   args |-> <<"Received message", m.Subject, m.Data>>])
                     \o (IF m.Reply # "" /\ ~e.isnil
                         THEN <<[by |-> Subscriber,
                                 args |-> <<"Error replying to message", m.Subject, e.msg>>]>>
                         ELSE <<>>)
    /\ UNCHANGED <<req, pc, elapsed, bodyPos, bodyClosed, resp, trace, ret>>

\* waitForInterrupt, lines 75-78: the signal arrives on sigChannel and the
\* goroutine stores it and calls waiter.Done()
Interrupt ==
    /\ main.pc = "subscribed"
    /\ main' = [main EXCEPT !.pc = "signalled", !.signal = TRUE]
    /\ UNCHANGED gwVars

\* waitForInterrupt returns and main goes on to the routes
InterruptFallsThrough ==
    /\ main.pc = "signalled"
    /\ main' = [main EXCEPT !.pc = "routes", !.routes = TRUE]
    /\ UNCHANGED gwVars

\* lines 79-80 and 61: waiter.Wait() returns, and log.Fatal ends the process
\* with the signal as its error
InterruptExit ==
    /\ main.pc = "signalled"
    /\ main' = [main EXCEPT !.pc = "exited", !.sub = FALSE,
                            !.fatal = Err("Signal received: interrupt")]
    /\ UNCHANGED gwVars

\* line 63: normal mode, the routes are registered
AddRoutes ==
    /\ main.pc = "connected"
    /\ main.cfg.Test = ""
    /\ main' = [main EXCEPT !.pc = "routes", !.routes = TRUE]
    /\ UNCHANGED gwVars

\* line 65: http.ListenAndServe serves, or fails and log.Fatal ends the process
ListenAndServe ==
    /\ main.pc = "routes"
    /\ \E e \in {NilErr, Err("listen tcp :8080: bind: address already in use")} :
          main' = IF e.isnil THEN [main EXCEPT !.pc = "serving", !.listening = TRUE]
                  ELSE [main EXCEPT !.pc = "exited", !.fatal = e]
    /\ UNCHANGED gwVars

NextMain ==
    \/ ReadConfig
    \/ Connect
    \/ Subscribe
    \/ OnMessage
    \/ Interrupt
    \/ InterruptExit
    \/ AddRoutes
    \/ ListenAndServe

SpecMain == InitMain /\ [][NextMain]_vars

(***************************************************************************)
(* Properties                                                              *)
(***************************************************************************)
Done(i) == pc[i] = "done"

HasTopic(r) == r.topic.ok /\ r.topic.name # ""

\* the body is there and its stream does not break
Readable(r) == r.body.present /\ r.body.failAt = NoFail

WithinLimit(r) == BLen(r.body.bytes) <= MaxRequestSize

CallsBy(i) == {k \in DOMAIN bus : bus[k].by = i}

\* C1: a POST to /topics/T, T non-empty, with a body P of at most
\* MaxRequestSize bytes, which the bus accepts, is answered 204 with an empty
\* body, and has made exactly one call on the bus: Publish(T, P), P byte for byte
C1_PublishOnce ==
    \A i \in Ids :
        ( /\ Done(i)
          /\ req[i].route = "topics"
          /\ HasTopic(req[i]) /\ Readable(req[i]) /\ WithinLimit(req[i])
          /\ \A k \in CallsBy(i) : bus[k].err.isnil )
        => /\ resp[i].status = StatusNoContent
           /\ resp[i].text = "" /\ resp[i].bytes = <<>>
           /\ Cardinality(CallsBy(i)) = 1
           /\ \A k \in CallsBy(i) : /\ bus[k].op = "Publish"
                                     /\ bus[k].topic = req[i].topic.name
                                     /\ bus[k].data = req[i].body.bytes

\* a body of exactly MaxRequestSize bytes has been published and answered 204
C1_Witness ==
    \E i \in Ids :
        /\ Done(i) /\ req[i].route = "topics"
        /\ HasTopic(req[i]) /\ Readable(req[i])
        /\ BLen(req[i].body.bytes) = MaxRequestSize
        /\ resp[i].status = StatusNoContent
        /\ \E k \in CallsBy(i) : bus[k].data = req[i].body.bytes

\* C2: a POST to /requests/T whose pub.Request returned a reply is answered
\* 200 with the reply payload as its body, unchanged, and Content-Type
\* application/json
C2_ReplyRelayed ==
    \A i \in Ids :
        ( /\ Done(i)
          /\ req[i].route = "requests"
          /\ ret[i].returned /\ ret[i].err.isnil )
        => /\ resp[i].status = StatusOK
           /\ resp[i].bytes = ret[i].msg.b
           /\ resp[i].text = ""
           /\ resp[i].contentType = "application/json"

\* a non-empty reply has been relayed
C2_Witness ==
    \E i \in Ids :
        /\ Done(i) /\ req[i].route = "requests"
        /\ ret[i].returned /\ ret[i].err.isnil
        /\ ret[i].msg.b # <<>>
        /\ resp[i].bytes = ret[i].msg.b

\* C3: a request blocked in pub.Request is eventually answered, and when the
\* call ended in the timeout it ended RequestTimeout seconds after it began
\* and the answer is 500 with the timeout error's message as its body
C3_TimeoutAnswered ==
    /\ \A i \in {1} : (pc[i] = "waiting") ~> Done(i)
    /\ [](\A i \in {1} :
            (Done(i) /\ ret[i].returned /\ ret[i].err = ErrTimeout)
            => /\ elapsed[i] = RequestTimeout
               /\ resp[i].status = StatusInternalServerError
               /\ resp[i].text = ErrTimeout.msg
               /\ resp[i].bytes = <<>>)

\* a request no responder ever received has been answered 500 on timeout
C3_Witness ==
    \E i \in Ids :
        /\ Done(i) /\ ret[i].err = ErrTimeout
        /\ \A k \in CallsBy(i) : ~bus[k].delivered
        /\ resp[i].status = StatusInternalServerError

\* no call on the bus has returned an error to handler i
NoBusError(i) == ret[i].err.isnil

\* C4 (the topic there, as the order of the status mapping has it, and no
\* failure of the bus): a request whose body is longer than MaxRequestSize
\* is answered 400
C4_OversizeRejected ==
    \A i \in Ids :
        ( /\ Done(i)
          /\ HasTopic(req[i]) /\ req[i].body.present
          /\ BLen(req[i].body.bytes) > MaxRequestSize
          /\ NoBusError(i) )
        => resp[i].status = StatusBadRequest

\* C5: a request with a topic whose body is absent, or empty, is answered
\* 406 (whenever the bus reports no failure) and makes no call on the bus
C5_EmptyBodyRejected ==
    \A i \in Ids :
        ( /\ Done(i)
          /\ HasTopic(req[i])
          /\ \/ ~req[i].body.present
             \/ Readable(req[i]) /\ BLen(req[i].body.bytes) = 0
          /\ NoBusError(i) )
        => /\ resp[i].status = StatusNotAcceptable
           /\ CallsBy(i) = {}

\* C6: a request whose topic is missing or empty is answered 404, whatever
\* its body
C6_MissingTopic404 ==
    \A i \in Ids :
        (Done(i) /\ ~HasTopic(req[i]))
        => /\ resp[i].status = StatusNotFound
           /\ resp[i].text = "Missing topic"

\* a request with no topic and no body has been answered 404
C6_Witness ==
    \E i \in Ids :
        /\ Done(i) /\ ~HasTopic(req[i])
        /\ ~req[i].body.present
        /\ resp[i].status = StatusNotFound

\* how often call c occurs in trace t
RECURSIVE Count(_, _)
Count(t, c) == IF t = <<>> THEN 0
               ELSE (IF Head(t) = c THEN 1 ELSE 0) + Count(Tail(t), c)

\* C7: a handler writes the status exactly once: never before it is through,
\* once when it is, on every path; and the response has that one status
C7_OneResponse ==
    \A i \in Ids :
        /\ resp[i].headerCalls = Count(trace[i], "WriteHeader")
        /\ resp[i].headerCalls <= 1
        /\ Count(trace[i], "Write") <= 1
        /\ Done(i) <=> resp[i].headerCalls = 1
        /\ Done(i) <=> resp[i].wroteHeader
        /\ Done(i) <=> Count(trace[i], "Write") = 1
        /\ Done(i) =>
              resp[i].status \in {StatusOK, StatusNoContent, StatusBadRequest,
                                  StatusNotFound, StatusNotAcceptable,
                                  StatusInternalServerError}

\* a response has been written on an error path
C7_Witness ==
    \E i \in Ids :
        /\ Done(i) /\ resp[i].headerCalls = 1
        /\ resp[i].status = StatusInternalServerError
        /\ resp[i].text # ""

\* C8: once decode has returned, a body that is there has been read to its
\* end (EOF, or the point where the stream breaks) and closed, whatever
\* decode returned
C8_BodyDrained ==
    \A i \in Ids :
        (pc[i] # "received" /\ req[i].body.present)
        => /\ bodyPos[i] = StreamEnd(req[i].body)
           /\ bodyClosed[i]
           /\ trace[i] # <<>> /\ trace[i][1] = "decode"

\* an oversized body has been read past the limit to its end, with the
\* handler still inside its bus call
C8_Witness ==
    \E i \in Ids :
        /\ pc[i] = "waiting"
        /\ BLen(req[i].body.bytes) > MaxRequestSize
        /\ bodyPos[i] = BLen(req[i].body.bytes)
        /\ bodyClosed[i]

\* decode lets the request through to its dispatch operation
Valid(r) ==
    /\ HasTopic(r)
    /\ r.body.present
    /\ r.body.failAt = NoFail \/ r.body.failAt >= MaxRequestSize

Dispatched == {i \in Ids : pc[i] # "received" /\ Valid(req[i])}

\* C9: every valid request handled has made its own bus call, equal requests
\* included: N of them make N calls
C9_NoDedup ==
    /\ \A i \in Dispatched : Cardinality(CallsBy(i)) = 1
    /\ Len(bus) = Cardinality(Dispatched)

\* two equal requests have made two equal calls
C9_Witness ==
    \E i, j \in Ids :
        /\ i # j /\ req[i] = req[j]
        /\ {i, j} \subseteq Dispatched
        /\ \E k, l \in DOMAIN bus :
              /\ k # l /\ bus[k].by = i /\ bus[l].by = j
              /\ bus[k].op = bus[l].op
              /\ bus[k].topic = bus[l].topic
              /\ bus[k].data = bus[l].data

\* C10: on the publish route the response is written in the step in which
\* pub.Publish returns: the handler is never left waiting, and whenever its
\* call is on the bus the response is there, delivered or not
C10_PublishDoesNotWait ==
    \A i \in Ids :
        req[i].route = "topics"
        => /\ pc[i] # "waiting"
           /\ CallsBy(i) # {} => Done(i)
           /\ (CallsBy(i) # {} /\ \A k \in CallsBy(i) : bus[k].err.isnil)
                 => resp[i].status = StatusNoContent

\* a 204 has been written for a message no subscriber has received
C10_Witness ==
    \E i \in Ids :
        /\ req[i].route = "topics" /\ Done(i)
        /\ resp[i].status = StatusNoContent
        /\ CallsBy(i) # {}
        /\ \A k \in CallsBy(i) : ~bus[k].delivered

\* C11: a handler makes at most one call on the bus, and one that the bus
\* failed (the send refused, or the request timed out) has made exactly one
\* and is answered 500 with the error's message as its body
C11_NoRetry ==
    \A i \in Ids :
        /\ Cardinality(CallsBy(i)) <= 1
        /\ ret[i].returned => Cardinality(CallsBy(i)) = 1
        /\ (Done(i) /\ ~NoBusError(i))
           => /\ Cardinality(CallsBy(i)) = 1
              /\ resp[i].status = StatusInternalServerError
              /\ resp[i].text = ret[i].err.msg
              /\ resp[i].bytes = <<>>

\* a send the bus refused has been answered 500, with one call made
C11_Witness ==
    \E i \in Ids :
        /\ Done(i) /\ ret[i].err = ErrConnectionClosed
        /\ Cardinality(CallsBy(i)) = 1
        /\ resp[i].status = StatusInternalServerError

\* C12: a request answered 404, 406 or 400, which is every request decode
\* fails on, has made no call on the bus and never waited for one
C12_ShortCircuit ==
    \A i \in Ids :
        /\ (Done(i) /\ ~Valid(req[i]))
           => resp[i].status \in {StatusNotFound, StatusNotAcceptable, StatusBadRequest}
        /\ (Done(i) /\ resp[i].status \in {StatusNotFound, StatusNotAcceptable,
                                           StatusBadRequest})
           => /\ CallsBy(i) = {}
              /\ ~ret[i].returned
              /\ trace[i] = <<"decode", "WriteHeader", "log.Print", "Write">>

\* a body that broke while read has been answered 400 with the bus untouched
C12_Witness ==
    \E i \in Ids :
        /\ Done(i) /\ HasTopic(req[i])
        /\ resp[i].status = StatusBadRequest
        /\ bus = <<>>

\* where call c first occurs in trace t
Pos(t, c) == CHOOSE k \in 1..Len(t) : t[k] = c /\ \A j \in 1..(k - 1) : t[j] # c

Logged(i) == {k \in DOMAIN logs : logs[k].by = i}

OwnStatus(r, rt) ==
    IF ~HasTopic(r) THEN StatusNotFound
    ELSE IF ~r.body.present THEN StatusNotAcceptable
    ELSE IF ~(r.body.failAt = NoFail \/ r.body.failAt >= MaxRequestSize)
    THEN StatusBadRequest
    ELSE IF ~rt.err.isnil THEN StatusInternalServerError
    ELSE IF r.route = "topics" THEN StatusNoContent
    ELSE StatusOK

\* C18: under every interleaving, a handler that is through has answered with
\* the status and body its own request and its own bus outcome give, its bus
\* call carried its own topic and body, a timeout came after its own 4
\* seconds, and a request not yet handled can be handled whatever the others
\* are doing
C18_Independent ==
    \A i \in Ids :
        /\ Done(i) =>
             /\ resp[i].status = OwnStatus(req[i], ret[i])
             /\ resp[i].bytes = ret[i].msg.b
             /\ resp[i].status = StatusInternalServerError
                  => resp[i].text = ret[i].err.msg
        /\ \A k \in CallsBy(i) : /\ bus[k].topic = req[i].topic.name
                                 /\ bus[k].data = req[i].body.bytes
                                 /\ bus[k].op = IF req[i].route = "topics"
                                                THEN "Publish" ELSE "Request"
        /\ (Done(i) /\ ret[i].err = ErrTimeout) => elapsed[i] = RequestTimeout
        /\ pc[i] = "received"
             => ENABLED (HandleDecodeError(i) \/ HandleTopic(i) \/ HandleRequest(i))

\* a publish has been answered 204 and a request with no topic 404 while
\* another handler was still waiting for its reply
C18_Witness ==
    \E i, j \in Ids :
        /\ i # j
        /\ pc[i] = "waiting" /\ elapsed[i] > 0
        /\ Done(j)
        /\ resp[j].status \in {StatusNoContent, StatusNotFound}

\* p is the first BLen(p) bytes of s
IsPrefix(p, s) == BLen(p) <= BLen(s) /\ Take(s, BLen(p)) = p

\* C20: every payload on the bus is a prefix of the body of the request it
\* was sent for and is at most MaxRequestSize bytes long
C20_PayloadBounded ==
    \A k \in DOMAIN bus :
        /\ BLen(bus[k].data) <= MaxRequestSize
        /\ IsPrefix(bus[k].data, req[bus[k].by].body.bytes)

\* a body longer than the limit has gone out cut to MaxRequestSize bytes
C20_Witness ==
    \E k \in DOMAIN bus :
        /\ BLen(req[bus[k].by].body.bytes) > MaxRequestSize
        /\ BLen(bus[k].data) = MaxRequestSize

\* what the table of bodies says of the body of request r
CaseOf(r) == CHOOSE c \in JSONCases : c.toks = r.body.toks

\* C14: in the JSON-validating variant, for a request with a topic and a body:
\* a body that does not decode is answered 400 and nothing is published; a
\* body that decodes is published exactly once, as the decoded map, and is
\* answered 204 when the bus takes it (500 when the bus fails the send)
C14_JSONValidated ==
    \A i \in Ids :
        (Done(i) /\ HasTopic(req[i]) /\ req[i].body.present)
        => IF CaseOf(req[i]).valid
           THEN /\ Cardinality(CallsBy(i)) = 1
                /\ \A k \in CallsBy(i) : /\ bus[k].op = "Publish"
                                         /\ bus[k].topic = req[i].topic.name
                                         /\ bus[k].data = CaseOf(req[i]).value
                /\ resp[i].status = IF NoBusError(i) THEN StatusNoContent
                                    ELSE StatusInternalServerError
                /\ NoBusError(i) => resp[i].text = ""
           ELSE /\ resp[i].status = StatusBadRequest
                /\ CallsBy(i) = {}
                /\ resp[i].text # ""

\* a body longer than the size limit whose first value is a whole object
\* has been published as the map decoded from it and answered 204
C14_Witness ==
    \E i \in Ids :
        /\ Done(i) /\ HasTopic(req[i])
        /\ TLen(req[i].body.toks) > MaxRequestSizeJSON
        /\ resp[i].status = StatusNoContent
        /\ \E k \in CallsBy(i) : bus[k].data = {<<"k", "v">>}

\* the messages received that carry a reply address, in order of arrival
Replied == SelectSeq(main.msgs, LAMBDA m : m.Reply # "")

\* C15: in test mode the calls on the bus are, in order, one Publish of the
\* acknowledgment to the reply address of each message received that has
\* one; a message without a reply address adds none
C15_AckPerReply ==
    /\ Len(bus) = Len(Replied)
    /\ \A k \in DOMAIN bus :
          /\ bus[k].op = "Publish"
          /\ bus[k].by = Subscriber
          /\ bus[k].topic = Replied[k].Reply
          /\ bus[k].data = Pong(Replied[k].Data)

\* a message with a reply address and one without have been received, and
\* one acknowledgment has been published
C15_Witness ==
    /\ \E j \in DOMAIN main.msgs : main.msgs[j].Reply = ""
    /\ \E j \in DOMAIN main.msgs : main.msgs[j].Reply # ""
    /\ Len(bus) = 1
    /\ bus[1].topic = "_INBOX.1"

FailedAcks == {k \in DOMAIN bus : ~bus[k].err.isnil}

ErrorsLogged == {k \in DOMAIN logs : logs[k].args[1] = "Error replying to message"}

\* C16: once an acknowledgment has failed to publish, the failure is in the
\* log and nothing else has come of it: the subscription is active until the
\* process ends, the process ends only on the interrupt, the next message can
\* still be received, and every message with a reply address received since
\* has had its acknowledgment published
C16_FailureSwallowed ==
    FailedAcks # {}
    => /\ Cardinality(ErrorsLogged) = Cardinality(FailedAcks)
       /\ main.pc \in {"subscribed", "signalled", "exited"}
       /\ main.pc # "exited" => main.sub
       /\ main.pc = "exited" => main.signal
       /\ (main.pc # "exited" /\ Len(main.msgs) < MaxMsgs) => ENABLED OnMessage
       /\ Len(bus) = Len(Replied)

\* an acknowledgment has been published after an earlier one failed
C16_Witness ==
    \E k, l \in DOMAIN bus :
        /\ k < l
        /\ ~bus[k].err.isnil
        /\ bus[l].err.isnil
        /\ main.sub

\* waitForInterrupt returns as soon as the signal has been read from the
\* channel, and log.Fatal then exits
FairnessMain == WF_vars(InterruptExit)

FairSpecMain == SpecMain /\ FairnessMain

\* test mode and serving mode in one state of the process
ModesApart ==
    /\ (main.sub \/ main.msgs # <<>> \/ main.signal)
       => /\ main.cfg.Test # ""
          /\ ~main.routes /\ ~main.listening
    /\ main.signal => main.pc \in {"signalled", "exited"}
    /\ (main.pc = "exited" /\ main.signal)
       => main.fatal = Err("Signal received: interrupt")
    /\ (main.routes \/ main.listening)
       => /\ main.cfg.Test = ""
          /\ ~main.sub /\ main.msgs = <<>> /\ bus = <<>>
          /\ ~main.signal
    /\ main.cfg.Test # "" => main.pc \notin {"routes", "serving"}
    /\ main.listening => main.routes

\* C17: a process that has subscribed, received a message or taken the
\* interrupt has a test topic configured and has neither registered the
\* routes nor served, and an interrupted process ends, reporting the signal; a
\* process that has registered the routes or serves has no test topic, no
\* subscription and has received nothing
C17_ModesExclusive ==
    /\ []ModesApart
    /\ main.signal ~> (main.pc = "exited")

\* a process in test mode has received a message, been interrupted and
\* ended, with the routes never registered
C17_Witness ==
    /\ main.pc = "exited" /\ main.signal
    /\ main.msgs # <<>>
    /\ ~main.routes /\ ~main.listening

\* what the claim has each field resolve to: the flag when given, otherwise
\* the field's own environment variable
OwnSetting(flag, envvar) == IF flag # "" THEN EnvVal(flag) ELSE envvar

OwnPort(flags, env) ==
    IF flags.port # 0 THEN [ok |-> TRUE, n |-> flags.port]
    ELSE [ok |-> env.NATS_PORT.ok, n |-> Atoi(env.NATS_PORT.v).n]

\* C19: once the configuration has been read, it was read without error
\* exactly when each of user, password, host and port was given by its flag
\* or by its own environment variable, and each field then holds the value so
\* given
C19_ConfigResolved ==
    LET f == main.flags
        e == main.env
        user == OwnSetting(f.user, e.NATS_USER)
        pass == OwnSetting(f.pass, e.NATS_PASS)
        host == OwnSetting(f.host, e.NATS_HOST)
        port == OwnPort(f, e)
        readOk == main.cfg # ZeroConfig
    IN  main.pc # "start"
        => /\ readOk <=> (user.ok /\ pass.ok /\ host.ok /\ port.ok)
           /\ ~readOk => (main.pc = "exited" /\ ~main.fatal.isnil)
           /\ readOk => /\ main.cfg.User = user.v
                        /\ main.cfg.Pass = pass.v
                        /\ main.cfg.Host = host.v
                        /\ main.cfg.Port = port.n

====
